---- MODULE Spec2Model ----
(***************************************************************************)
(* A model of pycarddav/carddav.py: the CardDAV client PyCardDAV, the      *)
(* identifier generator get_random_href and the PROPFIND response parser   *)
(* _process_xml_props, together with the HTTP server the client talks to.  *)
(*                                                                         *)
(* Python values that may be None are records [some, val]; Python strings  *)
(* are TLA+ strings, so concatenation, slicing, find and count are done on *)
(* the characters as the code does them.                                   *)
(***************************************************************************)
EXTENDS Integers, Sequences, FiniteSets, TLC

\* ------------------------------------------------------------------ bounds
NumCards == 2
NumEtags == 2
MaxResponses == 2
MaxChildren == 2
MaxProps == 2

\* ------------------------------------------------------- Python's None
None == [some |-> FALSE, val |-> ""]
Some(v) == [some |-> TRUE, val |-> v]

\* ------------------------------------------------------ string helpers
\* str.find(sub, start) with 1-based positions: 0 when sub does not occur.
RECURSIVE Find(_, _, _)
Find(s, sub, start) ==
    IF start + Len(sub) - 1 > Len(s) THEN 0
    ELSE IF SubSeq(s, start, start + Len(sub) - 1) = sub THEN start
    ELSE Find(s, sub, start + 1)

\* str.rfind(sub): the last position of sub, 0 when sub does not occur.
RECURSIVE RFindFrom(_, _, _)
RFindFrom(s, sub, start) ==
    IF start < 1 THEN 0
    ELSE IF SubSeq(s, start, start + Len(sub) - 1) = sub THEN start
    ELSE RFindFrom(s, sub, start - 1)

RFind(s, sub) == RFindFrom(s, sub, Len(s) - Len(sub) + 1)

\* str.count(sub): the number of non-overlapping occurrences of sub.
RECURSIVE CountFrom(_, _, _)
CountFrom(s, sub, start) ==
    LET i == Find(s, sub, start)
    IN  IF i = 0 THEN 0 ELSE 1 + CountFrom(s, sub, i + Len(sub))

Count(s, sub) == CountFrom(s, sub, 1)

LowerCase == "abcdefghijklmnopqrstuvwxyz"
UpperCase == "ABCDEFGHIJKLMNOPQRSTUVWXYZ"

\* The character of `to` at the position c has in `from`, c itself otherwise.
MapChar(c, from, to) ==
    LET i == Find(from, c, 1)
    IN  IF i = 0 THEN c ELSE SubSeq(to, i, i)

RECURSIVE MapString(_, _, _)
MapString(s, from, to) ==
    IF s = "" THEN ""
    ELSE MapChar(Head(s), from, to) \o MapString(Tail(s), from, to)

\* str.lower() and str.upper()
Lower(s) == MapString(s, UpperCase, LowerCase)
Upper(s) == MapString(s, LowerCase, UpperCase)

\* every character of s occurs in chars
RECURSIVE AllIn(_, _)
AllIn(s, chars) ==
    IF s = "" THEN TRUE
    ELSE Find(chars, Head(s), 1) # 0 /\ AllIn(Tail(s), chars)

\* "-".join(parts)
RECURSIVE Join(_, _)
Join(sep, parts) ==
    IF parts = <<>> THEN ""
    ELSE IF Len(parts) = 1 THEN parts[1]
    ELSE parts[1] \o sep \o Join(sep, Tail(parts))

\* -------------------------------------------------- get_random_href
HexDigits == "0123456789abcdef"

\* TLC's integers stop below 2^32, so a value n of random.randint is held as
\* its two 16-bit halves: n = hi * Word + lo with lo < Word.
Word == 65536

\* lower-case hexadecimal of n < 2^31, no padding
RECURSIVE Hex(_)
Hex(n) ==
    IF n < 16 THEN SubSeq(HexDigits, n + 1, n + 1)
    ELSE Hex(n \div 16) \o SubSeq(HexDigits, (n % 16) + 1, (n % 16) + 1)

\* the four hexadecimal digits of lo < Word
Hex4(lo) ==
    LET h == Hex(lo)
    IN  SubSeq("000", 1, 4 - Len(h)) \o h

\* "{0:x}".format(rand_number): lower-case hexadecimal, no padding
format_x(n) ==
    IF n.hi = 0 THEN Hex(n.lo) ELSE Hex(n.hi) \o Hex4(n.lo)

\* random.randint(0, 0x100000000) returns any integer of 0..0x100000000,
\* both ends included: 0x100000000 is hi = Word, lo = 0
randint ==
    [hi : 0..(Word - 1), lo : 0..(Word - 1)] \cup {[hi |-> Word, lo |-> 0]}

\* get_random_href for the three values random.randint returned
get_random_href(draws) ==
    Upper(Join("-", [i \in 1..3 |-> format_x(draws[i])]))

\* --------------------------------------------------- urlparse.urlparse
SchemeChars ==
    "abcdefghijklmnopqrstuvwxyzABCDEFGHIJKLMNOPQRSTUVWXYZ0123456789+-."

Slice(s, from) == SubSeq(s, from, Len(s))

\* urlparse._splitnetloc(url, 2): the netloc ends at the first of / ? #
splitnetloc(u) ==
    LET ends == {Find(u, c, 3) : c \in {"/", "?", "#"}} \ {0}
        delim == IF ends = {} THEN Len(u) + 1
                 ELSE CHOOSE e \in ends : \A f \in ends : e <= f
    IN  [netloc |-> SubSeq(u, 3, delim - 1), rest |-> Slice(u, delim)]

\* urlparse.urlsplit(url), first step: the text before the first colon is
\* the scheme, lower-cased, when it is made of scheme characters and what
\* follows is not a port number
split_scheme(u) ==
    LET i == Find(u, ":", 1)
        hasScheme ==
            /\ i > 1
            /\ \/ SubSeq(u, 1, i - 1) = "http"
               \/ /\ AllIn(SubSeq(u, 1, i - 1), SchemeChars)
                  /\ \/ Slice(u, i + 1) = ""
                     \/ ~AllIn(Slice(u, i + 1), "0123456789")
    IN  [scheme |-> IF hasScheme THEN Lower(SubSeq(u, 1, i - 1)) ELSE "",
         rest |-> IF hasScheme THEN Slice(u, i + 1) ELSE u]

\* second step: the netloc follows a leading //
split_netloc(s) ==
    LET nl == IF SubSeq(s.rest, 1, 2) = "//" THEN splitnetloc(s.rest)
              ELSE [netloc |-> "", rest |-> s.rest]
    IN  [scheme |-> s.scheme, netloc |-> nl.netloc, rest |-> nl.rest]

\* third step: the fragment follows the first #
split_fragment(s) ==
    LET f == Find(s.rest, "#", 1)
    IN  [scheme |-> s.scheme, netloc |-> s.netloc,
         rest |-> IF f = 0 THEN s.rest ELSE SubSeq(s.rest, 1, f - 1),
         fragment |-> IF f = 0 THEN "" ELSE Slice(s.rest, f + 1)]

\* fourth step: the query follows the first ?
split_query(s) ==
    LET q == Find(s.rest, "?", 1)
    IN  [scheme |-> s.scheme, netloc |-> s.netloc,
         path |-> IF q = 0 THEN s.rest ELSE SubSeq(s.rest, 1, q - 1),
         query |-> IF q = 0 THEN "" ELSE Slice(s.rest, q + 1),
         fragment |-> s.fragment]

\* urlparse.urlsplit(url)
urlsplit(u) == split_query(split_fragment(split_netloc(split_scheme(u))))

\* urlparse._splitparams on the result of urlsplit: the parameters of the
\* last path segment are split off
split_params(s) ==
    LET slash == RFind(s.path, "/")
        semi == IF slash # 0 THEN Find(s.path, ";", slash)
                ELSE Find(s.path, ";", 1)
    IN  [scheme |-> s.scheme, netloc |-> s.netloc,
         path |-> IF semi = 0 THEN s.path ELSE SubSeq(s.path, 1, semi - 1),
         params |-> IF semi = 0 THEN "" ELSE Slice(s.path, semi + 1),
         query |-> s.query, fragment |-> s.fragment]

\* urlparse.urlparse(url)
urlparse(u) == split_params(urlsplit(u))

\* url_tuple(resource, split_url.scheme + '://' + split_url.netloc,
\* split_url.path)
self_url(resource, split_url) ==
    [resource |-> resource,
     base |-> split_url.scheme \o "://" \o split_url.netloc,
     path |-> split_url.path]

\* PyCardDAV.__init__: split_url = urlparse.urlparse(resource), then
\* self.url
url_tuple(resource) == self_url(resource, urlparse(resource))

\* ------------------------------------------------------------ inputs
Cards == {"card" \o ToString(i) : i \in 1..NumCards}
Etags == {"e" \o ToString(i) : i \in 1..NumEtags}

\* the etag arguments a caller passes to update_vcard and delete_vcard
Markers == {None, Some("")} \cup {Some(e) : e \in Etags}

\* the resource argument of PyCardDAV(resource, ...)
ResourceUrls == {"http://h/ab", "http://h/ab/", "http://h/ab?q"}

\* the triples random.randint returns inside one get_random_href call
Draws ==
    { <<[hi |-> 0, lo |-> 0], [hi |-> 0, lo |-> 0], [hi |-> 0, lo |-> 0]>>,
      <<[hi |-> 0, lo |-> 171], [hi |-> Word - 1, lo |-> Word - 1],
        [hi |-> Word, lo |-> 0]>> }

\* for _ in range(0, 5)
MaxAttempts == 5

VARIABLES
    write_support,     \* self.write_support
    url,               \* self.url: resource, base, path
    settings,          \* self._settings: auth, verify
    default_headers,   \* self._default_headers
    server,            \* the server's resources: absolute URL -> content, etag
    pc,                \* "idle", "create" (inside upload_new_card), "done"
                       \* (the call has ended), "exited" (sys.exit)
    last,              \* the call in progress or just finished
    pre                \* the server's resources when that call began

vars ==
    <<write_support, url, settings, default_headers, server, pc, last, pre>>

\* ------------------------------------------------------- HTTP headers
NoHeaders == <<>>

\* Header names are matched without regard to case: a header mapping is
\* keyed by the lower-case name, and a lookup lowers the name it looks for.
HeaderName(key) ==
    CASE key = "ETag" -> "etag"
      [] key = "DAV" -> "dav"
      [] key = "If-Match" -> "if-match"
      [] key = "If-None-Match" -> "if-none-match"
      [] key = "Depth" -> "depth"
      [] key = "User-Agent" -> "user-agent"
      [] OTHER -> key

HasHeader(h, key) == HeaderName(key) \in DOMAIN h
HeaderValue(h, key) == h[HeaderName(key)]

\* response.headers[key] of requests' CaseInsensitiveDict. For a missing
\* key it gives None in the releases the "is None" test and the except
\* AttributeError clause are written for, and raises KeyError in the later
\* ones: missing is "None" or "KeyError" accordingly.
GetitemMissing == {"None", "KeyError"}

headers_getitem(h, key, missing) ==
    IF HasHeader(h, key)
    THEN [raised |-> FALSE, value |-> Some(HeaderValue(h, key))]
    ELSE IF missing = "None" THEN [raised |-> FALSE, value |-> None]
    ELSE [raised |-> TRUE, value |-> None]

\* Response.ok: the status is not a 4xx or 5xx
ok(response) == response.status < 400

\* ------------------------------------------------------------- server
Response(status, reason, hdrs, content) ==
    [status |-> status, reason |-> reason, headers |-> hdrs,
     content |-> content]

\* what the server decides on its own for one request: whether it fails,
\* and if not the ETag it gives a stored resource and whether it reports
\* that ETag in the response
ServerChoices ==
    [fault : {FALSE}, etag : Etags, send_etag : BOOLEAN] \cup
    [fault : {TRUE}, etag : {"e1"}, send_etag : {FALSE}]

Exists(srv, u) == u \in DOMAIN srv

\* the preconditions of a conditional request (If-Match, If-None-Match: *)
PreconditionFailed(srv, req) ==
    \/ /\ HasHeader(req.headers, "If-None-Match")
       /\ HeaderValue(req.headers, "If-None-Match") = "*"
       /\ Exists(srv, req.url)
    \/ /\ HasHeader(req.headers, "If-Match")
       /\ \/ ~Exists(srv, req.url)
          \/ srv[req.url].etag # HeaderValue(req.headers, "If-Match")

Store(srv, u, content, etag) ==
    [v \in DOMAIN srv \cup {u} |->
        IF v = u THEN [content |-> content, etag |-> etag] ELSE srv[v]]

Remove(srv, u) == [v \in DOMAIN srv \ {u} |-> srv[v]]

ServerError == Response(500, "Internal Server Error", NoHeaders, "error")

\* The URL of the collection itself. The server holds vCards at the URLs
\* below it and refuses a PUT or DELETE of the collection.
IsCollection(u) == u = url.base \o url.path

NotAllowed == Response(405, "Method Not Allowed", NoHeaders, "")

\* the server's handling of PUT: the new resources and the response
HandlePUT(srv, req, ch) ==
    IF ch.fault THEN [server |-> srv, response |-> ServerError]
    ELSE IF IsCollection(req.url)
    THEN [server |-> srv, response |-> NotAllowed]
    ELSE IF PreconditionFailed(srv, req)
    THEN [server |-> srv,
          response |-> Response(412, "Precondition Failed", NoHeaders, "")]
    ELSE [server |-> Store(srv, req.url, req.data, ch.etag),
          response |->
              Response(IF Exists(srv, req.url) THEN 204 ELSE 201,
                       IF Exists(srv, req.url) THEN "No Content"
                       ELSE "Created",
                       IF ch.send_etag THEN (HeaderName("ETag") :> ch.etag)
                       ELSE NoHeaders,
                       "")]

\* the server's handling of DELETE
HandleDELETE(srv, req, ch) ==
    IF ch.fault THEN [server |-> srv, response |-> ServerError]
    ELSE IF IsCollection(req.url)
    THEN [server |-> srv, response |-> NotAllowed]
    ELSE IF ~Exists(srv, req.url)
    THEN [server |-> srv,
          response |-> Response(404, "Not Found", NoHeaders, "not found")]
    ELSE IF PreconditionFailed(srv, req)
    THEN [server |-> srv,
          response |-> Response(412, "Precondition Failed", NoHeaders, "")]
    ELSE [server |-> Remove(srv, req.url),
          response |-> Response(204, "No Content", NoHeaders, "")]

\* the server's handling of GET
HandleGET(srv, req) ==
    IF Exists(srv, req.url)
    THEN Response(200, "OK", (HeaderName("ETag") :> srv[req.url].etag),
                  srv[req.url].content)
    ELSE Response(404, "Not Found", NoHeaders, "not found")

\* a stored resource gets an ETag that differs from the one it had
FreshEtag(srv, u, ch) ==
    (~ch.fault /\ Exists(srv, u)) => ch.etag # srv[u].etag

\* ------------------------------------------------- multi-status documents
\* An element of the tree lxml builds: its qualified tag, its text (None
\* for an element without text) and its child elements in document order.
Elem(tag, text, children) ==
    [tag |-> tag, text |-> text, children |-> children]

namespace == "{DAV:}"
TagMultistatus == namespace \o "multistatus"
TagResponse == namespace \o "response"
TagHref == namespace \o "href"
TagPropstat == namespace \o "propstat"
TagProp == namespace \o "prop"
TagStatus == namespace \o "status"
TagContentType == namespace \o "getcontenttype"
TagEtag == namespace \o "getetag"

\* abook[href] = etag
DictSet(d, k, v) == [x \in DOMAIN d \cup {k} |-> IF x = k THEN v ELSE d[x]]

\* for props in prop.iterchildren(): ...
RECURSIVE props_loop(_, _)
props_loop(children, st) ==
    IF children = <<>> THEN st
    ELSE LET props == Head(children)
             s1 == IF /\ props.tag = TagContentType
                      /\ \/ props.text = Some("text/vcard")
                         \/ props.text = Some("text/x-vcard")
                   THEN [st EXCEPT !.insert = TRUE] ELSE st
             s2 == IF props.tag = TagEtag
                   THEN [s1 EXCEPT !.etag = props.text] ELSE s1
         IN  props_loop(Tail(children), s2)

\* for prop in refprop.iterchildren(): ...; if insert: abook[href] = etag
RECURSIVE prop_loop(_, _)
prop_loop(children, st) ==
    IF children = <<>> THEN st
    ELSE LET s1 == props_loop(Head(children).children, st)
             s2 == IF s1.insert
                   THEN [s1 EXCEPT !.abook = DictSet(@, s1.href, s1.etag)]
                   ELSE s1
         IN  prop_loop(Tail(children), s2)

\* for refprop in response.iterchildren(): ...
RECURSIVE refprop_loop(_, _)
refprop_loop(children, st) ==
    IF children = <<>> THEN st
    ELSE LET refprop == Head(children)
             s1 == IF refprop.tag = TagHref
                   THEN [st EXCEPT !.href = refprop.text] ELSE st
         IN  refprop_loop(Tail(children), prop_loop(refprop.children, s1))

\* for response in element.iterchildren(): ...
RECURSIVE response_loop(_, _)
response_loop(children, abook) ==
    IF children = <<>> THEN abook
    ELSE LET response == Head(children)
             st == [href |-> Some(""), etag |-> Some(""), insert |-> FALSE,
                    abook |-> abook]
         IN  response_loop(Tail(children),
                 IF response.tag = TagResponse
                 THEN refprop_loop(response.children, st).abook
                 ELSE abook)

\* _process_xml_props with a dict that outlives the call in place of
\* abook = dict(): it still holds an entry of an earlier call
process_xml_props_kept(xml) ==
    response_loop(xml.children, (Some("/gone.vcf") :> Some("e1")))

\* _process_xml_props(xml), xml being the tree ET.XML(xml) builds
process_xml_props(xml) == response_loop(xml.children, <<>>)

\* ------------------------------------------------------------- client
Request(method, u, hdrs, data) ==
    [method |-> method, url |-> u, headers |-> hdrs, data |-> data]

\* the headers property: a copy of self._default_headers
headers == default_headers

\* headers = self.headers; headers[key] = value: the property returned
\* dict(self._default_headers), a copy, so self._default_headers is after
\* the call what it was before, whatever the call stored in its headers h.
\* Here the property returns self._default_headers itself.
default_headers_shared(h) == h

\* self._default_headers after a call that built the headers h
default_headers_after(h) == default_headers

\* how a call ends
Returned == [kind |-> "returned", exc |-> "", args |-> <<>>]
Raised(exc, args) == [kind |-> "raised", exc |-> exc, args |-> args]
Running == [kind |-> "running", exc |-> "", args |-> <<>>]

\* _check_write_support without the test of self.write_support
check_write_support_off == TRUE

\* _check_write_support: TRUE when the call goes on, FALSE when it ends in
\* sys.exit(1)
check_write_support == write_support

EmptyDoc == Elem(TagMultistatus, None, <<>>)

\* The record of one call: its arguments, the number of requests it sent,
\* the last of them and its response (requests and responses are empty
\* before the first request), how the call ended and what it returned; xml
\* is the document given to _process_xml_props when parsed says it was
\* called. prior tells whether the call before was an upload_new_card that
\* returned, and then the card it uploaded, the URL of its last PUT and the
\* path it returned; and whether it was a get_abook that returned, and then
\* the document it received and the dict it returned.
NoPrior ==
    [created |-> FALSE, card |-> "", url |-> "", path |-> "",
     listed |-> FALSE, lxml |-> EmptyDoc, lret |-> <<>>]

Prior(call) ==
    IF call.op = "upload_new_card" /\ call.outcome = Returned
    THEN [NoPrior EXCEPT !.created = TRUE, !.card = call.card,
                         !.url = call.requests[1].url,
                         !.path = call.ret[1]]
    ELSE IF call.op = "get_abook" /\ call.outcome = Returned
    THEN [NoPrior EXCEPT !.listed = TRUE, !.lxml = call.xml,
                         !.lret = call.ret]
    ELSE NoPrior

\* the record of a call that sends a request again when its response is
\* not a success
Call_resend(op, card, vref, etag, requests, responses, outcome, ret) ==
    [op |-> op, card |-> card, vref |-> vref, etag |-> etag,
     sent |-> IF responses # <<>> /\ ~ok(responses[1])
              THEN Len(requests) + 1 ELSE Len(requests),
     requests |-> requests,
     responses |-> responses, outcome |-> outcome,
     ret |-> ret, xml |-> EmptyDoc, parsed |-> FALSE, prior |-> last.prior]

Call(op, card, vref, etag, requests, responses, outcome, ret) ==
    [op |-> op, card |-> card, vref |-> vref, etag |-> etag,
     sent |-> Len(requests), requests |-> requests,
     responses |-> responses, outcome |-> outcome,
     ret |-> ret, xml |-> EmptyDoc, parsed |-> FALSE, prior |-> last.prior]

NoCall ==
    [op |-> "", card |-> "", vref |-> "", etag |-> None, sent |-> 0,
     requests |-> <<>>, responses |-> <<>>, outcome |-> Returned, ret |-> None,
     xml |-> EmptyDoc, parsed |-> FALSE, prior |-> NoPrior]

\* the call ends: it returns or raises
Finish(call) ==
    /\ last' = call
    /\ pc' = "done"

\* sys.exit(1) raises SystemExit: the process ends unless the caller of the
\* method catches it
SysExit(call) ==
    /\ last' = call
    /\ \E caught \in BOOLEAN : pc' = IF caught THEN "done" ELSE "exited"

\* ---------------------------------------------------------- URL tables
\* str(self.url.resource + '/' + rand_string + ".vcf")
Target(resource, rand_string) == resource \o "/" \o rand_string \o ".vcf"

\* get_random_href on the triples of Draws
RandomHref == [d \in Draws |-> get_random_href(d)]

\* the URLs upload_new_card can write to
TargetsOf ==
    [resource \in ResourceUrls |->
        {Target(resource, RandomHref[d]) : d \in Draws}]

\* the vref arguments of the calls: the paths upload_new_card returns
VrefsOf ==
    [resource \in ResourceUrls |->
        {urlparse(u).path : u \in TargetsOf[resource]}]

Vrefs == VrefsOf[url.resource]

\* the URLs of the requests of a client of the resource
UrlsOf ==
    [resource \in ResourceUrls |->
        TargetsOf[resource] \cup
        {url_tuple(resource).base \o vref : vref \in VrefsOf[resource]}]

\* urlparse.urlparse(u).path on those URLs
PathOf ==
    [u \in UNION {UrlsOf[resource] : resource \in ResourceUrls} |->
        urlparse(u).path]

\* ------------------------------------------------------------- PROPFIND
RECURSIVE SetToSeq(_)
SetToSeq(S) ==
    IF S = {} THEN <<>>
    ELSE LET e == CHOOSE e \in S : TRUE
         IN  <<e>> \o SetToSeq(S \ {e})

\* how a server reports the ETag of a member in a listing: a getetag
\* element with the ETag as text, an empty getetag element (the property
\* is named but has no value), or no getetag element
EtagForms == {"text", "empty", "absent"}

\* the response element of a stored vCard
MemberResponse(path, etag, form) ==
    Elem(TagResponse, None,
         << Elem(TagHref, Some(path), <<>>),
            Elem(TagPropstat, None,
                 << Elem(TagProp, None,
                         <<Elem(TagContentType, Some("text/vcard"), <<>>)>> \o
                         (IF form = "absent" THEN <<>>
                          ELSE <<Elem(TagEtag,
                                      IF form = "empty" THEN None
                                      ELSE Some(etag), <<>>)>>)),
                    Elem(TagStatus, Some("HTTP/1.1 200 OK"), <<>>) >>) >>)

\* the response element of the collection itself
CollectionResponse(path) ==
    Elem(TagResponse, None,
         << Elem(TagHref, Some(path), <<>>),
            Elem(TagPropstat, None,
                 << Elem(TagProp, None,
                         <<Elem(TagContentType, Some("httpd/unix-directory"),
                                <<>>)>>),
                    Elem(TagStatus, Some("HTTP/1.1 200 OK"), <<>>) >>) >>)

\* the multi-status document of the collection at path
Multistatus(srv, path, form) ==
    LET us == SetToSeq(DOMAIN srv)
    IN  Elem(TagMultistatus, None,
             <<CollectionResponse(path)>> \o
             [i \in 1..Len(us) |->
                 MemberResponse(PathOf[us[i]], srv[us[i]].etag, form)])

\* the DAV header of a PROPFIND response, None when the response has none
DavValues == {None, Some("1, 2, access-control"),
              Some("1, 2, 3, access-control, addressbook")}

\* what the server decides on its own for a PROPFIND
ListChoices == [dav : DavValues, getetag : EtagForms]

HandlePROPFIND(srv, req, path, ch) ==
    Response(207, "Multi-Status",
             IF ch.dav = None THEN NoHeaders
             ELSE (HeaderName("DAV") :> ch.dav.val),
             Multistatus(srv, path, ch.getetag))

\* response.headers['DAV'].count('addressbook') on the DAV headers
AddressbookCount ==
    [v \in {d.val : d \in DavValues \ {None}} |-> Count(v, "addressbook")]

\* ------------------------------------------------------------ operations
\* _get_xml_props after the PROPFIND: how the check of the DAV header ends.
\* None.count raises the AttributeError the except clause turns into
\* sys.exit(1); a KeyError is not caught.
get_xml_props(response, missing) ==
    LET dav == headers_getitem(response.headers, "DAV", missing)
    IN  IF dav.raised THEN Raised("KeyError", <<"DAV">>)
        ELSE IF dav.value = None
        THEN Raised("SystemExit", <<"1", "URL is not a DAV resource">>)
        ELSE IF AddressbookCount[dav.value.val] = 0
        THEN Raised("SystemExit", <<"1", "URL is not a CardDAV resource">>)
        ELSE Returned

\* the headers of the PROPFIND of _get_xml_props
propfind_headers == (HeaderName("Depth") :> "1") @@ headers

\* get_abook(): _get_xml_props, then _process_xml_props
get_abook ==
    /\ pc = "idle"
    /\ \E ch \in ListChoices, missing \in GetitemMissing :
         LET req == Request("PROPFIND", url.resource, propfind_headers, "")
             response == HandlePROPFIND(server, req, url.path, ch)
             out == get_xml_props(response, missing)
             call(ret) == Call("get_abook", "", "", None, <<req>>,
                               <<response>>, out, ret)
         IN  IF out.kind = "returned"
             THEN Finish([call(process_xml_props(response.content))
                            EXCEPT !.xml = response.content,
                                   !.parsed = TRUE])
             ELSE IF out.exc = "SystemExit" THEN SysExit(call(None))
             ELSE Finish(call(None))
    /\ pre' = server
    /\ default_headers' = default_headers_after(propfind_headers)
    /\ UNCHANGED <<write_support, url, settings, server>>

\* get_vcard(vref)
get_vcard(vref) ==
    /\ pc = "idle"
    /\ LET req == Request("GET", url.base \o vref, headers, "")
           response == HandleGET(server, req)
       IN  Finish(Call("get_vcard", "", vref, None, <<req>>, <<response>>,
                       Returned, response.content))
    /\ pre' = server
    /\ UNCHANGED <<write_support, url, settings, default_headers,
                   server>>

\* write_headers with "if etag:" in place of "if etag is not None:"
write_headers_truthy(etag) ==
    LET h == ("content-type" :> "text/vcard") @@ headers
    IN  IF etag # None /\ etag.val # ""
        THEN (HeaderName("If-Match") :> etag.val) @@ h ELSE h

\* the headers of update_vcard and delete_vcard
write_headers(etag) ==
    LET h == ("content-type" :> "text/vcard") @@ headers
    IN  IF etag # None THEN (HeaderName("If-Match") :> etag.val) @@ h ELSE h

\* update_vcard: the response of the PUT is not looked at
update_outcome(response) == Returned

\* update_vcard(card, vref, etag)
update_vcard(card, vref, etag) ==
    /\ pc = "idle"
    /\ pre' = server
    /\ UNCHANGED <<write_support, url, settings>>
    /\ IF ~check_write_support
       THEN /\ SysExit(Call("update_vcard", card, vref, etag, <<>>, <<>>,
                            Raised("SystemExit", <<"1">>), None))
            /\ UNCHANGED <<server, default_headers>>
       ELSE LET remotepath == url.base \o vref
                req == Request("PUT", remotepath, write_headers(etag), card)
            IN  \E ch \in ServerChoices :
                  /\ FreshEtag(server, remotepath, ch)
                  /\ default_headers' =
                        default_headers_after(write_headers(etag))
                  /\ LET r == HandlePUT(server, req, ch)
                     IN  /\ server' = r.server
                         /\ Finish(Call("update_vcard", card, vref, etag,
                                        <<req>>, <<r.response>>,
                                        update_outcome(r.response), None))

\* delete_outcome without the test of result.ok
delete_outcome_ignored(result) == Returned

\* delete_vcard: if not result.ok: raise Exception(result.reason,
\* result.content)
delete_outcome(result) ==
    IF ~ok(result)
    THEN Raised("Exception", <<result.reason, result.content>>)
    ELSE Returned

\* delete_vcard(vref, etag)
delete_vcard(vref, etag) ==
    /\ pc = "idle"
    /\ pre' = server
    /\ UNCHANGED <<write_support, url, settings>>
    /\ IF ~check_write_support
       THEN /\ SysExit(Call("delete_vcard", "", vref, etag, <<>>, <<>>,
                            Raised("SystemExit", <<"1">>), None))
            /\ UNCHANGED <<server, default_headers>>
       ELSE LET remotepath == url.base \o vref
                req == Request("DELETE", remotepath, write_headers(etag), "")
            IN  \E ch \in ServerChoices :
                  LET r == HandleDELETE(server, req, ch)
                  IN  /\ server' = r.server
                      /\ default_headers' =
                            default_headers_after(write_headers(etag))
                      /\ Finish(Call("delete_vcard", "", vref, etag,
                                     <<req>>, <<r.response>>,
                                     delete_outcome(r.response), None))

\* create_headers without headers['If-None-Match'] = '*'
create_headers_unconditional == ("content-type" :> "text/vcard") @@ headers

\* the headers of the PUT of upload_new_card
create_headers ==
    (HeaderName("If-None-Match") :> "*") @@
    ("content-type" :> "text/vcard") @@ headers

\* upload_new_card(card) up to the loop: _check_write_support
upload_new_card(card) ==
    /\ pc = "idle"
    /\ pre' = server
    /\ UNCHANGED <<write_support, url, settings, default_headers,
                   server>>
    /\ IF ~check_write_support
       THEN SysExit(Call("upload_new_card", card, "", None, <<>>, <<>>,
                         Raised("SystemExit", <<"1">>), None))
       ELSE /\ last' = Call("upload_new_card", card, "", None, <<>>, <<>>,
                            Running, None)
            /\ pc' = "create"

\* One turn of the loop of upload_new_card after its PUT, the attempts-th
\* one: return (parsed_url.path, etag) when response.ok, go round again
\* otherwise, raise UploadFailed(response.reason) after the last turn.
upload_result(response, attempts, path, missing) ==
    IF ok(response)
    THEN LET etag == headers_getitem(response.headers, "etag", missing)
         IN  IF etag.raised
             THEN [outcome |-> Raised("KeyError", <<"etag">>), ret |-> None]
             ELSE [outcome |-> Returned,
                   ret |-> <<path, IF etag.value = None THEN ""
                                   ELSE etag.value.val>>]
    ELSE IF attempts = MaxAttempts
    THEN [outcome |-> Raised("UploadFailed", <<response.reason>>),
          ret |-> None]
    ELSE [outcome |-> Running, ret |-> None]

\* one turn of the loop of upload_new_card: draws are the values
\* random.randint returns to get_random_href
upload_attempt(draws) ==
    /\ pc = "create"
    /\ \E ch \in ServerChoices, missing \in GetitemMissing :
         LET rand_string == RandomHref[draws]
             remotepath == Target(url.resource, rand_string)
             req == Request("PUT", remotepath, create_headers, last.card)
             r == HandlePUT(server, req, ch)
             res == upload_result(r.response, last.sent + 1,
                                  PathOf[remotepath], missing)
         IN  /\ FreshEtag(server, remotepath, ch)
             /\ server' = r.server
             /\ last' = [last EXCEPT
                           !.sent = @ + 1,
                           !.requests = <<req>>,
                           !.responses = <<r.response>>,
                           !.outcome = res.outcome,
                           !.ret = res.ret]
             /\ pc' = IF res.outcome = Running THEN "create" ELSE "done"
    /\ default_headers' = default_headers_after(create_headers)
    /\ UNCHANGED <<write_support, url, settings, pre>>

\* DAVICAL, SABREDAV, UNKNOWN
DAVICAL == "davical"
SABREDAV == "sabredav"
UNKNOWN == "unknown server"

\* The attributes a PyCardDAV object has: those __init__ sets, and the
\* properties and methods of the class.
Attributes ==
    {"url", "debug", "session", "write_support", "_settings",
     "_default_headers", "verify", "headers", "_check_write_support",
     "_detect_server", "get_abook", "get_vcard", "update_vcard",
     "delete_vcard", "upload_new_card", "_get_xml_props",
     "_process_xml_props"}

\* the headers a server may send in its response to OPTIONS
DetectHeaders ==
    {[name \in S |-> "1.0"] :
        S \in SUBSET {"x-sabre-version", "x-davical-version", "server"}}

\* key in response.headers: the name is matched without regard to case
header_in(key, h) == Lower(key) \in DOMAIN h

\* the if / elif / else of _detect_server
detected(h) ==
    IF header_in("X-Sabre-Version", h) THEN SABREDAV
    ELSE IF header_in("X-DAViCal-Version", h) THEN DAVICAL
    ELSE UNKNOWN

\* _detect_server(): the arguments of requests.request are evaluated first,
\* and headers=self.header reads an attribute the object does not have
detect_server ==
    /\ pc = "idle"
    /\ IF "header" \notin Attributes
       THEN Finish(Call("_detect_server", "", "", None, <<>>, <<>>,
                        Raised("AttributeError", <<"header">>), None))
       ELSE \E hs \in DetectHeaders :
              LET req == Request("OPTIONS", url.base, headers, "")
                  response == Response(200, "OK", hs, "")
              IN  Finish(Call("_detect_server", "", "", None, <<req>>,
                              <<response>>, Returned, detected(hs)))
    /\ pre' = server
    /\ UNCHANGED <<write_support, url, settings, default_headers, server>>

\* The caller has the result or the exception of the call and the client
\* can be called again; what the next call can use of this one is the path
\* an upload_new_card returned.
Return ==
    /\ pc = "done"
    /\ pc' = "idle"
    /\ last' = [NoCall EXCEPT !.prior = Prior(last)]
    /\ pre' = server
    /\ UNCHANGED <<write_support, url, settings, default_headers, server>>

\* the setter of the property verify, between two calls
set_verify(verify) ==
    /\ pc = "idle"
    /\ settings' = [settings EXCEPT !.verify = verify]
    /\ UNCHANGED <<write_support, url, default_headers, server, pc, last,
                   pre>>

\* another client of the server stores or removes a resource, between two
\* calls of this client
OtherWriter ==
    /\ pc = "idle"
    /\ \E u \in {v \in UrlsOf[url.resource] : ~IsCollection(v)} :
         \/ \E card \in Cards, etag \in Etags :
              /\ Exists(server, u) => etag # server[u].etag
              /\ server' = Store(server, u, card, etag)
         \/ /\ Exists(server, u)
            /\ server' = Remove(server, u)
    /\ last' = [NoCall EXCEPT !.op = "other"]
    /\ pre' = server'
    /\ UNCHANGED <<write_support, url, settings, default_headers, pc>>

\* -------------------------------------------------------- specifications
Init ==
    /\ write_support \in BOOLEAN
    /\ url \in {url_tuple(resource) : resource \in ResourceUrls}
    /\ settings \in [auth : {<<"", "">>}, verify : BOOLEAN]
    /\ default_headers = (HeaderName("User-Agent") :> "pyCardDAV")
    /\ server = <<>>
    /\ pc = "idle"
    /\ last = NoCall
    /\ pre = <<>>

Next ==
    \/ get_abook
    \/ \E vref \in Vrefs : get_vcard(vref)
    \/ \E card \in Cards, vref \in Vrefs, etag \in Markers :
          update_vcard(card, vref, etag)
    \/ \E vref \in Vrefs, etag \in Markers : delete_vcard(vref, etag)
    \/ \E card \in Cards : upload_new_card(card)
    \/ \E draws \in Draws : upload_attempt(draws)
    \/ detect_server
    \/ \E verify \in BOOLEAN : set_verify(verify)
    \/ Return
    \/ OtherWriter

Spec == Init /\ [][Next]_vars

\* ------------------------------------------------ the parser on its own
\* the texts of getcontenttype and getetag elements, None for <getetag/>
ContentTypes == {"text/vcard", "text/x-vcard", "text/directory"}
EtagTexts == {None, Some("abc")}
HrefTexts == {"/a.vcf", "/b.vcf"}

SeqsUpTo(S, n) == UNION {[1..k -> S] : k \in 0..n}

PropsElems ==
    {Elem(TagContentType, Some(t), <<>>) : t \in ContentTypes} \cup
    {Elem(TagEtag, e, <<>>) : e \in EtagTexts}

\* a prop element holds a property at most once
PropElems ==
    {Elem(TagProp, None, ps) :
        ps \in {s \in SeqsUpTo(PropsElems, MaxProps) :
                  \A i, j \in 1..Len(s) : s[i].tag = s[j].tag => i = j}}

PropstatElems == {Elem(TagPropstat, None, <<p>>) : p \in PropElems}

HrefElems == {Elem(TagHref, Some(h), <<>>) : h \in HrefTexts}

ResponseElems ==
    {Elem(TagResponse, None, cs) :
        cs \in SeqsUpTo(HrefElems \cup PropstatElems, MaxChildren)}

\* the well-formed multi-status documents within the bounds
Docs ==
    {Elem(TagMultistatus, None, rs) :
        rs \in SeqsUpTo(ResponseElems, MaxResponses)}

\* a caller hands a document to the class method _process_xml_props
parse_call ==
    /\ pc = "idle"
    /\ last.op = ""
    /\ last' = [last EXCEPT !.op = "_process_xml_props",
                            !.parsed = TRUE,
                            !.ret = process_xml_props(last.xml)]
    /\ UNCHANGED <<write_support, url, settings, default_headers, server, pc,
                   pre>>

InitParser ==
    /\ write_support = FALSE
    /\ url = url_tuple("http://h/ab")
    /\ settings = [auth |-> <<"", "">>, verify |-> TRUE]
    /\ default_headers = (HeaderName("User-Agent") :> "pyCardDAV")
    /\ server = <<>>
    /\ pc = "idle"
    /\ \E doc \in Docs : last = [NoCall EXCEPT !.xml = doc]
    /\ pre = <<>>

NextParser == parse_call

SpecParser == InitParser /\ [][NextParser]_vars

\* ================================================================ claims
\* the last request of the call and its response
LastRequest == last.requests[1]
LastResponse == last.responses[1]

IsWriteCall == last.op \in {"update_vcard", "delete_vcard", "upload_new_card"}

\* every resource the server had before the call is still there, unchanged
Preserved == \A u \in DOMAIN pre : u \in DOMAIN server /\ server[u] = pre[u]

\* the caller's marker differs from the marker the server has for the
\* resource the call is about
MarkerMismatch ==
    /\ last.etag # None
    /\ LastRequest.url \in DOMAIN pre
    /\ pre[LastRequest.url].etag # last.etag.val

\* C1: on a client without write support no step of the client changes the
\* server's resources, and a call of update_vcard, delete_vcard or
\* upload_new_card ends in sys.exit(1) before any request is sent.
C1_NoWriteWithoutSupport ==
    [][(~write_support /\ last'.op # "other") =>
          /\ server' = server
          /\ IsWriteCall' =>
                /\ last'.sent = 0
                /\ last'.requests = <<>>
                /\ last'.outcome.exc = "SystemExit"]_vars

\* C1 witness: a mutating call was refused while the server held a resource
C1_Witness ==
    /\ ~write_support
    /\ IsWriteCall
    /\ last.outcome.exc = "SystemExit"
    /\ server # <<>>

\* C2: the PUT of upload_new_card carries If-None-Match: *, and during and
\* after the call every resource that existed before it has the content and
\* ETag it had; a resource the call added is at the URL of its PUT, which
\* was absent, and holds the card.
C2_CreateOnlyAdds ==
    last.op = "upload_new_card" =>
        /\ Preserved
        /\ last.sent > 0 =>
              /\ LastRequest.method = "PUT"
              /\ HasHeader(LastRequest.headers, "If-None-Match")
              /\ HeaderValue(LastRequest.headers, "If-None-Match") = "*"
        /\ \A u \in DOMAIN server \ DOMAIN pre :
              /\ u = LastRequest.url
              /\ server[u].content = last.card

\* C2 witness: the identifier of an attempt collided with an existing
\* resource and the server rejected the PUT
C2_Witness ==
    /\ last.op = "upload_new_card"
    /\ last.sent > 0
    /\ LastRequest.url \in DOMAIN pre
    /\ LastResponse.status = 412

\* C3: upload_new_card sends at most 5 PUTs; it goes on to a further one
\* only after a rejected one; it returns when the server accepts a PUT and
\* raises UploadFailed with the reason of the last response exactly when the
\* fifth PUT was rejected as well.
C3_CreateTerminates ==
    (last.op = "upload_new_card" /\ write_support) =>
        /\ last.sent <= MaxAttempts
        /\ pc = "create" =>
              /\ last.sent < MaxAttempts
              /\ last.sent > 0 => ~ok(LastResponse)
        /\ pc # "create" =>
              /\ last.sent > 0
              /\ ok(LastResponse) => last.outcome = Returned
              /\ ~ok(LastResponse) =>
                    /\ last.sent = MaxAttempts
                    /\ last.outcome =
                          Raised("UploadFailed", <<LastResponse.reason>>)

\* C4: update_vcard with a marker that differs from the server's sends it
\* as If-Match, leaves the stored resource as it was and ends in a failure;
\* every response of the server that is not a success ends the call in a
\* failure.
C4_UpdateFailureSurfaced ==
    (last.op = "update_vcard" /\ write_support) =>
        /\ MarkerMismatch =>
              /\ HasHeader(LastRequest.headers, "If-Match")
              /\ HeaderValue(LastRequest.headers, "If-Match") = last.etag.val
              /\ server = pre
              /\ last.outcome.kind = "raised"
        /\ ~ok(LastResponse) => last.outcome.kind = "raised"

\* C5: delete_vcard raises Exception(reason, content) of the response
\* whenever the response is not a success; with a marker that differs from
\* the server's the resource stays and the call raises; a call that returns
\* got a success response and the resource is gone.
C5_DeleteRaises ==
    (last.op = "delete_vcard" /\ write_support) =>
        /\ ~ok(LastResponse) =>
              last.outcome = Raised("Exception", <<LastResponse.reason,
                                                   LastResponse.content>>)
        /\ MarkerMismatch =>
              /\ server = pre
              /\ last.outcome.kind = "raised"
        /\ last.outcome = Returned =>
              /\ ok(LastResponse)
              /\ LastRequest.url \in DOMAIN pre
              /\ LastRequest.url \notin DOMAIN server

\* C5 witness: a delete with a stale marker was rejected and raised
C5_Witness ==
    /\ last.op = "delete_vcard"
    /\ write_support
    /\ MarkerMismatch
    /\ LastResponse.status = 412
    /\ last.outcome.exc = "Exception"

\* C6: update_vcard and delete_vcard send If-Match exactly when the etag
\* argument is not None, with that argument as its value; with None, on an
\* existing resource and a server that does not fail on its own, the
\* response is a success and the resource is replaced (new content, new
\* ETag) or removed, whatever ETag it had.
C6_UnconditionalWhenNone ==
    (last.op \in {"update_vcard", "delete_vcard"} /\ write_support) =>
        /\ HasHeader(LastRequest.headers, "If-Match") <=> last.etag # None
        /\ last.etag # None =>
              HeaderValue(LastRequest.headers, "If-Match") = last.etag.val
        /\ ( /\ last.etag = None
             /\ LastRequest.url \in DOMAIN pre
             /\ LastResponse.status < 500 ) =>
              /\ ok(LastResponse)
              /\ last.outcome = Returned
              /\ last.op = "update_vcard" =>
                    /\ LastRequest.url \in DOMAIN server
                    /\ server[LastRequest.url].content = last.card
                    /\ server[LastRequest.url].etag #
                          pre[LastRequest.url].etag
              /\ last.op = "delete_vcard" =>
                    LastRequest.url \notin DOMAIN server

\* C6 witness: an update without marker replaced an existing resource, and
\* a call was made with the empty string as marker
C6_Witness ==
    \/ /\ last.op = "update_vcard"
       /\ write_support
       /\ last.etag = None
       /\ LastRequest.url \in DOMAIN pre
       /\ ok(LastResponse)
       /\ server[LastRequest.url].content # pre[LastRequest.url].content
    \/ /\ last.op = "delete_vcard"
       /\ write_support
       /\ last.etag = Some("")
       /\ LastRequest.url \in DOMAIN pre

\* C7: a get_vcard called right after an upload_new_card that returned,
\* with the path it returned, requests the URL the successful PUT was sent
\* to and returns the card that was uploaded.
C7_CreateFetchRoundTrip ==
    ( /\ last.op = "get_vcard"
      /\ last.prior.created
      /\ last.vref = last.prior.path ) =>
        /\ LastRequest.url = last.prior.url
        /\ last.ret = last.prior.card

\* the DAV header of the response advertises addressbook
Advertises(response) ==
    /\ HasHeader(response.headers, "DAV")
    /\ AddressbookCount[HeaderValue(response.headers, "DAV")] > 0

\* C8: get_abook ends in the exit for a resource that is not CardDAV,
\* without calling _process_xml_props and without a result, whenever the
\* DAV header of the PROPFIND response lacks 'addressbook' or the response
\* has no DAV header; it returns a result only when the header advertises
\* addressbook.
C8_ListRequiresAddressbook ==
    last.op = "get_abook" =>
        /\ ~Advertises(LastResponse) =>
              /\ last.outcome.exc = "SystemExit"
              /\ ~last.parsed
              /\ last.ret = None
        /\ last.outcome = Returned => Advertises(LastResponse)

\* ------------------------------------------------ reading a document
Range(s) == {s[i] : i \in 1..Len(s)}

\* the response elements of a document
ResponsesOf(doc) == {r \in Range(doc.children) : r.tag = TagResponse}

\* the texts of the href children of a response element
HrefsOf(r) == {c.text : c \in {c \in Range(r.children) : c.tag = TagHref}}

\* the property elements of a response element: the children of the
\* children of its children
PropertiesOf(r) ==
    UNION {UNION {Range(prop.children) : prop \in Range(refprop.children)} :
              refprop \in Range(r.children)}

\* the response element has a getcontenttype of a vCard
Qualifies(r) ==
    \E p \in PropertiesOf(r) :
        /\ p.tag = TagContentType
        /\ p.text \in {Some("text/vcard"), Some("text/x-vcard")}

\* the texts of the getetag properties of a response element, as strings
EtagsOf(r) ==
    {IF p.text = None THEN Some("") ELSE p.text :
        p \in {p \in PropertiesOf(r) : p.tag = TagEtag}}

\* C9: the result of _process_xml_props has the href of a response element
\* as a key if and only if a response element with that href has a
\* getcontenttype of exactly text/vcard or text/x-vcard, whatever the order
\* of its children; a document without such a response gives no key.
C9_KeysAreVcardHrefs ==
    last.op = "_process_xml_props" =>
        LET rs == ResponsesOf(last.xml)
        IN  /\ \A r \in rs : \A h \in HrefsOf(r) :
                  h \in DOMAIN last.ret <=>
                      \E q \in rs : h \in HrefsOf(q) /\ Qualifies(q)
            /\ (\A r \in rs : ~Qualifies(r)) => last.ret = <<>>

\* C10: every value of the result of _process_xml_props is a string, never
\* None: for a href that one response element has, the text of the getetag
\* of that response element when it has one, the empty string otherwise.
C10_ValuesAreStrings ==
    last.op = "_process_xml_props" =>
        LET rs == ResponsesOf(last.xml)
        IN  /\ \A k \in DOMAIN last.ret : last.ret[k].some
            /\ \A r \in rs : \A h \in HrefsOf(r) :
                  ( /\ h \in DOMAIN last.ret
                    /\ \A q \in rs \ {r} : h \notin HrefsOf(q) ) =>
                      IF EtagsOf(r) = {} THEN last.ret[h] = Some("")
                      ELSE last.ret[h] \in EtagsOf(r)

\* C11: whenever the server accepts a PUT of upload_new_card the call
\* returns the pair (path of the URL of that PUT, marker), the marker being
\* the ETag header of the response, or the empty string when the response
\* has no ETag header.
C11_CreateReturnsMarker ==
    ( /\ last.op = "upload_new_card"
      /\ last.sent > 0
      /\ ok(LastResponse) ) =>
        /\ last.outcome = Returned
        /\ last.ret =
              << PathOf[LastRequest.url],
                 IF HasHeader(LastResponse.headers, "ETag")
                 THEN HeaderValue(LastResponse.headers, "ETag") ELSE "" >>

\* C12: _detect_server sends one OPTIONS request to self.url.base and
\* returns sabredav when the response headers have X-Sabre-Version, davical
\* when they have X-DAViCal-Version and not X-Sabre-Version, unknown when
\* they have neither.
C12_DetectClassifies ==
    last.op = "_detect_server" =>
        /\ last.sent = 1
        /\ LastRequest.method = "OPTIONS"
        /\ LastRequest.url = url.base
        /\ last.outcome = Returned
        /\ last.ret =
              IF "x-sabre-version" \in DOMAIN LastResponse.headers
              THEN "sabredav"
              ELSE IF "x-davical-version" \in DOMAIN LastResponse.headers
              THEN "davical"
              ELSE "unknown server"

\* C13: the dict get_abook returns is built from the response of that call
\* alone: each key is the path of a resource the server holds now and its
\* value is what the response says of that resource's ETag (the ETag, or
\* the empty string or None when the listing has no ETag text); and a
\* get_abook that receives the document the get_abook before it received
\* returns the same dict.
C13_ListIsFresh ==
    (last.op = "get_abook" /\ last.outcome = Returned) =>
        /\ \A k \in DOMAIN last.ret :
              \E u \in DOMAIN server :
                  /\ k = Some(PathOf[u])
                  /\ last.ret[k] \in {Some(server[u].etag), Some(""), None}
        /\ ( /\ last.prior.listed
             /\ last.prior.lxml = LastResponse.content ) =>
              last.ret = last.prior.lret

\* C13 witness: two get_abook calls in a row received the same listing of a
\* collection that is not empty
C13_Witness ==
    /\ last.op = "get_abook"
    /\ last.outcome = Returned
    /\ last.prior.listed
    /\ last.prior.lxml = LastResponse.content
    /\ last.ret # <<>>
    /\ server # <<>>

\* C14: inside upload_new_card a further PUT is sent only after a PUT the
\* server rejected with 412 Precondition Failed; after any other failure
\* response no further PUT is sent.
C14_RetryOnlyOnCollision ==
    [][( /\ last.op = "upload_new_card"
         /\ last.sent > 0
         /\ last'.sent = last.sent + 1 ) =>
            last.responses[1].status = 412]_vars

UserAgentOnly == (HeaderName("User-Agent") :> "pyCardDAV")

\* the headers the request of the call has when they depend on the
\* arguments of that call alone
OwnHeaders ==
    CASE last.op = "get_abook" ->
            (HeaderName("Depth") :> "1") @@ UserAgentOnly
      [] last.op \in {"update_vcard", "delete_vcard"} ->
            IF last.etag = None
            THEN ("content-type" :> "text/vcard") @@ UserAgentOnly
            ELSE (HeaderName("If-Match") :> last.etag.val) @@
                 ("content-type" :> "text/vcard") @@ UserAgentOnly
      [] last.op = "upload_new_card" ->
            (HeaderName("If-None-Match") :> "*") @@
            ("content-type" :> "text/vcard") @@ UserAgentOnly
      [] OTHER -> UserAgentOnly

\* the default headers are User-Agent alone and the request of the call
\* has the headers of that call and no other
HeadersAreOwn ==
    /\ default_headers = UserAgentOnly
    /\ last.sent > 0 => LastRequest.headers = OwnHeaders

\* C16: after every step the default headers are only User-Agent and the
\* headers of the request of a call are those its own arguments give; no
\* step changes the collection reference, the write-support flag or the
\* default headers, and the settings change only by the verify setter
\* between two calls, never in a step of an operation.
C16_NoCrossCallState ==
    [][ /\ HeadersAreOwn'
        /\ url' = url
        /\ write_support' = write_support
        /\ default_headers' = default_headers
        /\ settings' # settings =>
              (pc = "idle" /\ pc' = "idle" /\ last' = last) ]_vars

\* C16 witness: a get_vcard right after a get_abook (which set Depth), on a
\* client whose verify setting was changed, sent its request
C16_Witness ==
    /\ last.op = "get_vcard"
    /\ last.sent = 1
    /\ last.prior.listed
    /\ ~settings.verify
    /\ server # <<>>

\* C17: update_vcard and delete_vcard send the empty-string marker as
\* If-Match with the empty value; and a call right after a get_abook, for a
\* path that get_abook listed and with the marker it listed for that path
\* as etag argument, sends If-Match: it is never an unconditional request.
C17_ListedMarkerIsConditional ==
    (last.op \in {"update_vcard", "delete_vcard"} /\ write_support) =>
        /\ last.etag = Some("") =>
              /\ HasHeader(LastRequest.headers, "If-Match")
              /\ HeaderValue(LastRequest.headers, "If-Match") = ""
        /\ ( /\ last.prior.listed
             /\ Some(last.vref) \in DOMAIN last.prior.lret
             /\ last.etag = last.prior.lret[Some(last.vref)] ) =>
              HasHeader(LastRequest.headers, "If-Match")

\* C18: a call of update_vcard, delete_vcard or upload_new_card on a client
\* without write support ends in an error of its own type raised to the
\* caller, not in sys.exit: the process goes on and the client can be
\* called again.
C18_RefusalIsTypedError ==
    (IsWriteCall /\ ~write_support) =>
        /\ last.outcome.kind = "raised"
        /\ last.outcome.exc # "SystemExit"
        /\ pc # "exited"

\* C19: every PUT of upload_new_card goes to self.url.resource + '/' + an
\* identifier of exactly 35 characters + '.vcf'.
C19_IdentifierLength ==
    (last.op = "upload_new_card" /\ last.sent > 0) =>
        Len(LastRequest.url) = Len(url.resource) + 1 + 35 + 4
====
